---- MODULE Spec2Model ----
(***************************************************************************)
(* CultureBot: the answer cache of app/utils.py (an lru_cache memoiser or  *)
(* a Redis store, chosen at import time) and the /ask handler of           *)
(* app/main.py that consults it, calls the model and writes the answer     *)
(* back.                                                                   *)
(*                                                                         *)
(* Python values are represented as follows.                               *)
(*   Optional[x]   a sequence of length 0 (None) or 1 (the value)          *)
(*   str (answer)  a sequence of Unicode code points                       *)
(*   bytes         a sequence of integers 0..255                           *)
(*   str (question, env values, messages)  a TLA+ string                   *)
(*   a call        a record [exc, msg, ret]: exc = "" when the call        *)
(*                 returned ret; when it raised, exc is the exception's    *)
(*                 class and msg its message, str(e)                       *)
(***************************************************************************)
EXTENDS Integers, Sequences, FiniteSets, TLC

VARIABLES
    phase,       \* "init" before app.utils is imported, then "running" or "crashed"
    env,         \* the process environment and what is installed
    USE_REDIS,   \* utils.USE_REDIS
    redis_client,\* utils.redis_client: None, or the client with its socket timeout
    lru,         \* the memo of _lru_cache_get, least recently used first
    store,       \* the Redis keyspace: key -> None or an entry [val, exp]
    storeState,  \* "up", "down" (operations fail at once) or "hung" (no reply)
    now,         \* the clock, in seconds
    events,      \* how many times the clock has advanced or the store failed
    started,     \* how many /ask requests have arrived
    req,         \* the in-flight /ask requests, one per slot
    lastSet,     \* history: question -> the answer of the last cache_response that
                 \*   returned without a failure of the store, None before the first
    recency,     \* history: the questions set so far, least recently used first
    written      \* history: every <<question, answer>> handed to cache_response

vars == <<phase, env, USE_REDIS, redis_client, lru, store, storeState, now,
          events, started, req, lastSet, recency, written>>

-----------------------------------------------------------------------------
(* Bounds of the model *)

MaxRequests == 2    \* /ask requests that arrive
MaxEvents == 2      \* advances of the clock and failures of the store

Slots == {1, 2}
TickSteps == {43200}

Questions == {"Foo", "foo"}
Answers == {<< >>, <<65, 233>>}
ModelErrors == {"Test model error"}
Malformed == {<<255>>}

-----------------------------------------------------------------------------
(* Python values *)

None == << >>
Some(v) == <<v>>

Return(v) == [exc |-> "", msg |-> "", ret |-> v]
Raise(e, m) == [exc |-> e, msg |-> m, ret |-> None]

\* str(e) of the exceptions that the import and the Redis client raise
ImportMessage == "No module named 'redis'"
SchemeMessage ==
    "Redis URL must specify one of the following schemes (redis://, rediss://, unix://)"
RefusedMessage(address) == "Error 111 connecting to " \o address \o ". Connection refused."
ClosedMessage == "Connection closed by server."
TimeoutMessage == "Timeout reading from socket"

\* bool(x) of an Optional[str] or Optional[bytes]: None and the empty value are falsy
Truthy(opt) == opt # None /\ opt[1] # << >>

\* the classes an exception is an instance of
Bases(e) ==
    CASE e = "ImportError" -> {"ImportError", "Exception"}
      [] e = "ValueError" -> {"ValueError", "Exception"}
      [] e = "UnicodeDecodeError" -> {"UnicodeDecodeError", "ValueError", "Exception"}
      [] e = "ConnectionError" -> {"ConnectionError", "RedisError", "Exception"}
      [] e = "TimeoutError" -> {"TimeoutError", "RedisError", "Exception"}
      [] OTHER -> {"Exception"}

IsInstance(e, cls) == cls \in Bases(e)

\* os.getenv(name, default)
getenv(v, default) == IF v = None THEN default ELSE v[1]

\* str.lower(), on the strings of the model
lower(s) ==
    CASE s = "TRUE" -> "true"
      [] s = "True" -> "true"
      [] s = "FALSE" -> "false"
      [] s = "Foo" -> "foo"
      [] OTHER -> s

\* str.encode('utf-8'), as the Redis client encodes a value (no surrogates)
RECURSIVE utf8_encode(_)
utf8_encode(s) ==
    IF s = << >> THEN << >>
    ELSE LET c == Head(s)
         IN (IF c < 128 THEN <<c>>
             ELSE IF c < 2048 THEN <<192 + (c \div 64), 128 + (c % 64)>>
             ELSE IF c < 65536
                  THEN <<224 + (c \div 4096), 128 + ((c \div 64) % 64), 128 + (c % 64)>>
             ELSE <<240 + (c \div 262144), 128 + ((c \div 4096) % 64),
                    128 + ((c \div 64) % 64), 128 + (c % 64)>>)
            \o utf8_encode(Tail(s))

HexDigit(n) ==
    <<"0", "1", "2", "3", "4", "5", "6", "7",
      "8", "9", "a", "b", "c", "d", "e", "f">>[n + 1]

\* "%02x" of a byte
Hex2(x) == HexDigit(x \div 16) \o HexDigit(x % 16)

\* the UnicodeDecodeError for the bytes b[from + 1 .. to] (from and to count from
\* 0, to exclusive), with str(e) as UnicodeDecodeError.__str__ builds it
DecodeError(b, from, to, reason) ==
    Raise("UnicodeDecodeError",
          IF to = from + 1
          THEN "'utf-8' codec can't decode byte 0x" \o Hex2(b[from + 1])
                   \o " in position " \o ToString(from) \o ": " \o reason
          ELSE "'utf-8' codec can't decode bytes in position " \o ToString(from)
                   \o "-" \o ToString(to - 1) \o ": " \o reason)

\* a UTF-8 continuation byte
IsCont(x) == x >= 128 /\ x <= 191

\* bytes.decode('utf-8') from index i on, acc being the code points decoded so far
RECURSIVE utf8_decode_from(_, _, _)
utf8_decode_from(b, i, acc) ==
    IF i > Len(b) THEN Return(Some(acc))
    ELSE
    LET ch == b[i]
        n == Len(b)
        avail == n - i + 1
        c2 == b[i + 1]
        c3 == b[i + 2]
        c4 == b[i + 3]
        start == i - 1
        TooShort == DecodeError(b, start, n, "unexpected end of data")
        BadStart == DecodeError(b, start, start + 1, "invalid start byte")
        BadCont(k) == DecodeError(b, start, start + k, "invalid continuation byte")
    IN IF ch < 128 THEN utf8_decode_from(b, i + 1, Append(acc, ch))
       ELSE IF ch < 194 THEN BadStart
       ELSE IF ch < 224 THEN
            IF avail < 2 THEN TooShort
            ELSE IF ~IsCont(c2) THEN BadCont(1)
            ELSE utf8_decode_from(b, i + 2, Append(acc, (ch - 192) * 64 + (c2 - 128)))
       ELSE IF ch < 240 THEN
            IF avail < 2 THEN TooShort
            ELSE IF ~IsCont(c2) \/ (ch = 224 /\ c2 < 160) \/ (ch = 237 /\ c2 >= 160)
                 THEN BadCont(1)
            ELSE IF avail < 3 THEN TooShort
            ELSE IF ~IsCont(c3) THEN BadCont(2)
            ELSE utf8_decode_from(b, i + 3,
                     Append(acc, (ch - 224) * 4096 + (c2 - 128) * 64 + (c3 - 128)))
       ELSE IF ch < 245 THEN
            IF avail < 2 THEN TooShort
            ELSE IF ~IsCont(c2) \/ (ch = 240 /\ c2 < 144) \/ (ch = 244 /\ c2 >= 144)
                 THEN BadCont(1)
            ELSE IF avail < 3 THEN TooShort
            ELSE IF ~IsCont(c3) THEN BadCont(2)
            ELSE IF avail < 4 THEN TooShort
            ELSE IF ~IsCont(c4) THEN BadCont(3)
            ELSE utf8_decode_from(b, i + 4,
                     Append(acc, (ch - 240) * 262144 + (c2 - 128) * 4096
                                   + (c3 - 128) * 64 + (c4 - 128)))
       ELSE BadStart

\* bytes.decode('utf-8')
utf8_decode(b) == utf8_decode_from(b, 1, << >>)

-----------------------------------------------------------------------------
(* Module initialisation of app.utils: the backend is chosen once *)

DefaultUrl == "redis://localhost:6379"

\* urllib's split of the URLs the model draws REDIS_URL from
urlparse(url) ==
    CASE url = "redis://localhost:6379" ->
             [scheme |-> "redis", netloc |-> "localhost:6379", socket_timeout |-> None]
      [] url = "redis://cache:6379?socket_timeout=2" ->
             [scheme |-> "redis", netloc |-> "cache:6379", socket_timeout |-> Some(2)]
      [] OTHER -> [scheme |-> "localhost", netloc |-> "", socket_timeout |-> None]

\* redis.from_url(url): no connection is made; an unknown scheme raises ValueError,
\* and the client has a socket timeout only when the URL's query gives one
from_url(url) ==
    LET u == urlparse(url)
    IN IF u.scheme \in {"redis", "rediss", "unix"}
       THEN Return(Some([address |-> u.netloc, socket_timeout |-> u.socket_timeout]))
       ELSE Raise("ValueError", SchemeMessage)

\* utils.py 9-22; exc is the exception that escapes the module, "" when none does
module_init(e) ==
    LET flag == lower(getenv(e.USE_REDIS, "false")) = "true"
        made == IF e.redis_installed
                THEN from_url(getenv(e.REDIS_URL, DefaultUrl))
                ELSE Raise("ImportError", ImportMessage)
    IN IF ~flag
       THEN [USE_REDIS |-> FALSE, redis_client |-> None, exc |-> ""]
       ELSE IF made.exc = ""
       THEN [USE_REDIS |-> TRUE, redis_client |-> made.ret, exc |-> ""]
       ELSE IF IsInstance(made.exc, "ImportError")
       THEN [USE_REDIS |-> FALSE, redis_client |-> None, exc |-> ""]
       ELSE [USE_REDIS |-> TRUE, redis_client |-> None, exc |-> made.exc]

-----------------------------------------------------------------------------
(* The in-process backend: functools.lru_cache around a function returning None *)

maxsize == 100

\* the body of _lru_cache_get
wrapped(question) == None

LruHit(question) == \E i \in 1 .. Len(lru) : lru[i].key = question

LruWithout(question) == SelectSeq(lru, LAMBDA m : m.key # question)

\* the value the memoiser hands back: the memoised result, or the body's on a miss
_lru_cache_get(question) ==
    IF LruHit(question)
    THEN (CHOOSE m \in {lru[i] : i \in 1 .. Len(lru)} : m.key = question).result
    ELSE wrapped(question)

\* the memo after that call: a hit moves the entry to the recent end, a miss
\* memoises the result, dropping the oldest entry of a full memo
LruAfterGet(question) ==
    IF LruHit(question)
    THEN Append(LruWithout(question),
                CHOOSE m \in {lru[i] : i \in 1 .. Len(lru)} : m.key = question)
    ELSE LET kept == IF Len(lru) >= maxsize THEN Tail(lru) ELSE lru
         IN Append(kept, [key |-> question, result |-> wrapped(question)])

\* the memo after cache_response (utils.py 90-95): cache_clear() empties it; the
\* wrapper has no attribute cache_dict, so the answer is stored nowhere
LruAfterSet(question, answer) == << >>

-----------------------------------------------------------------------------
(* The Redis backend *)

TTL == 86400

Prefix == "culturebot:qa:"

\* a key that folds case
KeyOf_folded(question) == Prefix \o lower(question)

\* utils.py 60 and 83: the key of a question
KeyOf(question) == Prefix \o question

Keys == {KeyOf(q) : q \in Questions}

\* the client's failure against a store that refuses the connection (s = "down")
\* or that drops it during a call (s = "closed")
ClientFault(s) ==
    Raise("ConnectionError",
          IF s = "down" THEN RefusedMessage(redis_client[1].address) ELSE ClosedMessage)

\* the client's reply to GET from a store in state s
redis_get(key, s) ==
    IF s \in {"down", "closed"} THEN ClientFault(s)
    ELSE IF store[key] # None /\ now < store[key][1].exp
         THEN Return(Some(store[key][1].val))
         ELSE Return(None)

\* the client's reply to SETEX from a store in state s
redis_setex(key, s) ==
    IF s \in {"down", "closed"} THEN ClientFault(s) ELSE Return(None)

\* the keyspace after a SETEX that the store accepted
StoreAfterSetex(key, ttl, answer) ==
    [store EXCEPT ![key] = Some([val |-> utf8_encode(answer), exp |-> now + ttl])]

\* a handler that catches the client's errors only
get_cached_response_redis_narrow(reply) ==
    LET body == IF reply.exc # "" THEN reply
                ELSE IF Truthy(reply.ret) THEN utf8_decode(reply.ret[1])
                ELSE Return(None)
    IN IF body.exc # "" /\ IsInstance(body.exc, "RedisError")
       THEN Return(None)
       ELSE body

\* utils.py 59-67, given the client's reply
get_cached_response_redis(reply) ==
    LET body == IF reply.exc # "" THEN reply
                ELSE IF Truthy(reply.ret) THEN utf8_decode(reply.ret[1])
                ELSE Return(None)
    IN IF body.exc # "" /\ IsInstance(body.exc, "Exception")
       THEN Return(None)
       ELSE body

\* utils.py 81-86, given the client's reply
cache_response_redis(reply) ==
    IF reply.exc # "" /\ IsInstance(reply.exc, "Exception")
    THEN Return(None)
    ELSE reply

\* the failure a Redis lookup met, "" when it met none
GetFault(reply) ==
    IF reply.exc # "" THEN reply.exc
    ELSE IF Truthy(reply.ret) THEN utf8_decode(reply.ret[1]).exc
    ELSE ""

\* utils.py 48-70 when the store replies at once
get_cached_response(question) ==
    IF USE_REDIS
    THEN get_cached_response_redis(redis_get(KeyOf(question), storeState))
    ELSE Return(_lru_cache_get(question))

-----------------------------------------------------------------------------
(* The /ask handler, main.py 167-202.  Every call of the handler up to its   *)
(* await runs without interleaving on the event loop; a Redis call that gets *)
(* no reply blocks the loop, and with it every other request.                *)

NoResponse == [status |-> 0, answer |-> None, detail |-> ""]

IdleReq == [pc |-> "idle", question |-> "", answer |-> None,
            cached |-> Return(None), getFault |-> "",
            setOut |-> None, setFault |-> "",
            response |-> NoResponse, log |-> << >>]

Blocked == \E r \in Slots : req[r].pc \in {"get_blocked", "set_blocked"}

\* a request that arrives takes the first free slot
FreeSlot(r) == req[r].pc = "idle" /\ \A o \in Slots : o < r => req[o].pc # "idle"

Ev(op, q, a) == [op |-> op, q |-> q, a |-> a]

\* a handler that never takes the cached answer
IsCacheHit_never(cached) == FALSE

\* main.py 187: if cached_response
IsCacheHit(cached) == Truthy(cached)

\* main.py 202, e being str(e), the exception's message
ErrorDetail(e) == "Error generating answer: " \o e

\* main.py 186-190, once get_cached_response has come back with out
AfterLookup(rq, out, fault) ==
    LET seen == [rq EXCEPT !.cached = out, !.getFault = fault]
    IN IF out.exc # ""
       THEN [seen EXCEPT !.pc = "done",
                         !.response = [status |-> 500, answer |-> None,
                                       detail |-> "Internal Server Error"]]
       ELSE IF IsCacheHit(out.ret)
       THEN [seen EXCEPT !.pc = "done",
                         !.response = [status |-> 200, answer |-> out.ret, detail |-> ""]]
       ELSE [seen EXCEPT !.pc = "await_model"]

\* main.py 196-202, once cache_response has come back with out
AfterStore(rq, out, fault) ==
    LET told == [rq EXCEPT !.setOut = Some(out), !.setFault = fault, !.pc = "done"]
    IN IF out.exc # ""
       THEN [told EXCEPT !.response = [status |-> 500, answer |-> None,
                                       detail |-> ErrorDetail(out.msg)]]
       ELSE [told EXCEPT !.response = [status |-> 200, answer |-> rq.answer, detail |-> ""]]

\* the history after a use of question q
Touch(q) == Append(SelectSeq(recency, LAMBDA k : k # q), q)

\* the lookup of slot r comes back with the client's reply (Redis) or the memo's value
LookupDone(r, rq, reply) ==
    LET out == IF USE_REDIS THEN get_cached_response_redis(reply) ELSE reply
        fault == IF USE_REDIS THEN GetFault(reply) ELSE ""
    IN /\ req' = [req EXCEPT ![r] = AfterLookup(rq, out, fault)]
       /\ recency' = IF out.exc = "" /\ out.ret # None /\ rq.question \in
                                                {recency[i] : i \in 1 .. Len(recency)}
                     THEN Touch(rq.question) ELSE recency

\* cache_response of slot r comes back, the store having replied with reply
StoreDone(r, rq, reply) ==
    LET out == IF USE_REDIS THEN cache_response_redis(reply) ELSE reply
        fault == IF USE_REDIS THEN reply.exc ELSE ""
    IN /\ req' = [req EXCEPT ![r] = AfterStore(rq, out, fault)]
       /\ store' = IF USE_REDIS /\ reply.exc = ""
                   THEN StoreAfterSetex(KeyOf(rq.question), TTL, rq.answer[1])
                   ELSE store
       /\ lru' = IF USE_REDIS THEN lru ELSE LruAfterSet(rq.question, rq.answer[1])
       /\ lastSet' = IF fault = ""
                     THEN [lastSet EXCEPT ![rq.question] = rq.answer]
                     ELSE lastSet
       /\ recency' = IF fault = "" THEN Touch(rq.question) ELSE recency

-----------------------------------------------------------------------------
(* Actions *)

Envs == [USE_REDIS : {None, Some("TRUE"), Some("1")},
         redis_installed : BOOLEAN,
         REDIS_URL : {None, Some("redis://cache:6379?socket_timeout=2"),
                      Some("localhost:6379")}]

Init ==
    /\ phase = "init"
    /\ env \in Envs
    /\ USE_REDIS = FALSE
    /\ redis_client = None
    /\ lru = << >>
    /\ store = [k \in Keys |-> None]
    /\ storeState = "up"
    /\ now = 0
    /\ events = 0
    /\ started = 0
    /\ req = [r \in Slots |-> IdleReq]
    /\ lastSet = [q \in Questions |-> None]
    /\ recency = << >>
    /\ written = {}

\* importing app.utils
Startup ==
    /\ phase = "init"
    /\ LET m == module_init(env)
       IN /\ USE_REDIS' = m.USE_REDIS
          /\ redis_client' = m.redis_client
          /\ phase' = IF m.exc = "" THEN "running" ELSE "crashed"
    /\ UNCHANGED <<env, lru, store, storeState, now, events, started, req, lastSet,
                   recency, written>>

\* POST /ask without "question": main.py 178-180
AskMissing(r) ==
    /\ phase = "running" /\ ~Blocked
    /\ FreeSlot(r)
    /\ started < MaxRequests
    /\ started' = started + 1
    /\ req' = [req EXCEPT ![r] = [IdleReq EXCEPT !.pc = "done",
                 !.response = [status |-> 400, answer |-> None,
                               detail |-> "Question is required"]]]
    /\ UNCHANGED <<phase, env, USE_REDIS, redis_client, lru, store, storeState,
                   now, events, lastSet, recency, written>>

\* POST /ask with question q: main.py 182-190, up to the model call
Ask(r, q) ==
    /\ phase = "running" /\ ~Blocked
    /\ FreeSlot(r)
    /\ started < MaxRequests
    /\ started' = started + 1
    /\ LET rq == [IdleReq EXCEPT !.question = q, !.log = <<Ev("get", q, None)>>]
       IN IF USE_REDIS /\ storeState = "hung"
          THEN /\ req' = [req EXCEPT ![r] = [rq EXCEPT !.pc = "get_blocked"]]
               /\ UNCHANGED <<lru, recency>>
          ELSE /\ LookupDone(r, rq, IF USE_REDIS
                                    THEN redis_get(KeyOf(q), storeState)
                                    ELSE Return(_lru_cache_get(q)))
               /\ lru' = IF USE_REDIS THEN lru ELSE LruAfterGet(q)
    /\ UNCHANGED <<phase, env, USE_REDIS, redis_client, store, storeState, now,
                   events, lastSet, written>>

\* the blocked GET ends: the store answers (s = "up") or the connection drops
GetReply(r, s) ==
    /\ req[r].pc = "get_blocked"
    /\ storeState' = s
    /\ LookupDone(r, req[r], redis_get(KeyOf(req[r].question),
                                    IF s = "down" THEN "closed" ELSE s))
    /\ UNCHANGED <<phase, env, USE_REDIS, redis_client, lru, store, now, events, started,
                   lastSet, written>>

\* the blocked GET ends by the client's socket timeout, when it has one
GetTimeout(r) ==
    /\ req[r].pc = "get_blocked"
    /\ redis_client # None /\ redis_client[1].socket_timeout # None
    /\ LookupDone(r, req[r], Raise("TimeoutError", TimeoutMessage))
    /\ UNCHANGED <<phase, env, USE_REDIS, redis_client, lru, store, storeState,
                   now, events, started, lastSet, written>>

\* the model call returns answer a: main.py 193-199
ModelReturn(r, a) ==
    /\ phase = "running" /\ ~Blocked
    /\ req[r].pc = "await_model"
    /\ written' = written \cup {<<req[r].question, a>>}
    /\ LET q == req[r].question
           rq == [req[r] EXCEPT !.answer = Some(a),
                     !.log = @ \o <<Ev("model", q, None), Ev("set", q, Some(a))>>]
       IN IF USE_REDIS /\ storeState = "hung"
          THEN /\ req' = [req EXCEPT ![r] = [rq EXCEPT !.pc = "set_blocked"]]
               /\ UNCHANGED <<lru, store, lastSet, recency>>
          ELSE StoreDone(r, rq, IF USE_REDIS
                                THEN redis_setex(KeyOf(q), storeState)
                                ELSE Return(None))
    /\ UNCHANGED <<phase, env, USE_REDIS, redis_client, storeState, now, events, started>>

\* the blocked SETEX ends: the store answers (s = "up") or the connection drops
SetReply(r, s) ==
    /\ req[r].pc = "set_blocked"
    /\ storeState' = s
    /\ StoreDone(r, req[r], redis_setex(KeyOf(req[r].question),
                                     IF s = "down" THEN "closed" ELSE s))
    /\ UNCHANGED <<phase, env, USE_REDIS, redis_client, now, events, started, written>>

\* the blocked SETEX ends by the client's socket timeout, when it has one
SetTimeout(r) ==
    /\ req[r].pc = "set_blocked"
    /\ redis_client # None /\ redis_client[1].socket_timeout # None
    /\ StoreDone(r, req[r], Raise("TimeoutError", TimeoutMessage))
    /\ UNCHANGED <<phase, env, USE_REDIS, redis_client, storeState, now, events, started,
                   written>>

\* a handler that caches before it knows the model's outcome
ModelRaise_caching(r, e) ==
    /\ phase = "running" /\ ~Blocked
    /\ req[r].pc = "await_model"
    /\ req' = [req EXCEPT ![r] = [@ EXCEPT !.pc = "done",
                 !.log = @ \o <<Ev("model", req[r].question, None)>>,
                 !.response = [status |-> 500, answer |-> None,
                               detail |-> ErrorDetail(e)]]]
    /\ store' = IF USE_REDIS /\ storeState = "up"
                THEN StoreAfterSetex(KeyOf(req[r].question), TTL, << >>)
                ELSE store
    /\ lru' = IF USE_REDIS THEN lru ELSE << >>
    /\ UNCHANGED <<phase, env, USE_REDIS, redis_client, storeState,
                   now, events, started, lastSet, recency, written>>

\* the model call raises: main.py 200-202
ModelRaise(r, e) ==
    /\ phase = "running" /\ ~Blocked
    /\ req[r].pc = "await_model"
    /\ req' = [req EXCEPT ![r] = [@ EXCEPT !.pc = "done",
                 !.log = @ \o <<Ev("model", req[r].question, None)>>,
                 !.response = [status |-> 500, answer |-> None,
                               detail |-> ErrorDetail(e)]]]
    /\ UNCHANGED <<phase, env, USE_REDIS, redis_client, lru, store, storeState,
                   now, events, started, lastSet, recency, written>>

\* the response is sent and the slot is free again
Finish(r) ==
    /\ req[r].pc = "done"
    /\ req' = [req EXCEPT ![r] = IdleReq]
    /\ UNCHANGED <<phase, env, USE_REDIS, redis_client, lru, store, storeState,
                   now, events, started, lastSet, recency, written>>

\* the clock advances
Tick(d) ==
    /\ phase = "running" /\ USE_REDIS
    /\ events < MaxEvents
    /\ now' = now + d
    /\ events' = events + 1
    /\ UNCHANGED <<phase, env, USE_REDIS, redis_client, lru, store, storeState,
                   started, req, lastSet, recency, written>>

\* the store goes down, stops answering, or comes back
StoreChange(s) ==
    /\ phase = "running" /\ USE_REDIS /\ ~Blocked
    /\ storeState # s
    /\ storeState = "up" \/ s = "up"
    /\ s # "up" => events < MaxEvents
    /\ events' = IF s = "up" THEN events ELSE events + 1
    /\ storeState' = s
    /\ UNCHANGED <<phase, env, USE_REDIS, redis_client, lru, store, now, started,
                   req, lastSet, recency, written>>

\* another user of the shared store leaves undecodable bytes under one of the keys
StoreCorrupt(q, b) ==
    /\ phase = "running" /\ USE_REDIS
    /\ store[KeyOf(q)] # None
    /\ store[KeyOf(q)][1].val # b
    /\ events < MaxEvents
    /\ events' = events + 1
    /\ store' = [store EXCEPT ![KeyOf(q)] = Some([@[1] EXCEPT !.val = b])]
    /\ lastSet' = [lastSet EXCEPT ![q] = None]
    /\ UNCHANGED <<phase, env, USE_REDIS, redis_client, lru, storeState, now,
                   started, req, recency, written>>

Next ==
    \/ Startup
    \/ \E r \in Slots : AskMissing(r)
    \/ \E r \in Slots, q \in Questions : Ask(r, q)
    \/ \E r \in Slots, s \in {"up", "down"} : GetReply(r, s)
    \/ \E r \in Slots : GetTimeout(r)
    \/ \E r \in Slots, a \in Answers : ModelReturn(r, a)
    \/ \E r \in Slots, s \in {"up", "down"} : SetReply(r, s)
    \/ \E r \in Slots : SetTimeout(r)
    \/ \E r \in Slots, e \in ModelErrors : ModelRaise(r, e)
    \/ \E r \in Slots : Finish(r)
    \/ \E d \in TickSteps : Tick(d)
    \/ \E s \in {"up", "down", "hung"} : StoreChange(s)
    \/ \E q \in Questions, b \in Malformed : StoreCorrupt(q, b)

Spec == Init /\ [][Next]_vars

\* The handlers run when they can, a client with a socket timeout gives up, and
\* the model call ends; nothing makes a request arrive or the store answer.
FairSpec ==
    /\ Spec
    /\ WF_vars(Startup)
    /\ \A r \in Slots :
        /\ WF_vars(GetTimeout(r))
        /\ WF_vars(SetTimeout(r))
        /\ WF_vars((\E a \in Answers : ModelReturn(r, a))
                     \/ (\E e \in ModelErrors : ModelRaise(r, e)))
        /\ WF_vars(Finish(r))

-----------------------------------------------------------------------------
(* What the claims speak of *)

\* the request of slot r went to the model and cache_response has come back
StoredByModel(r) == req[r].pc = "done" /\ req[r].setOut # None

\* question q was handed to cache_response at some time
EverSet(q) == \E a \in Answers : <<q, a>> \in written

\* what a get_cached_response(q) made now would hand back
Lookup(q) == get_cached_response(q).ret

\* the questions a lookup made now would find
Present == {q \in Questions : Lookup(q) # None}

\* the n most recently used of the questions set so far
MostRecent(n) ==
    {recency[i] : i \in {j \in 1 .. Len(recency) : j > Len(recency) - n}}

\* the messages of the exceptions that the libraries raise in the model
LibraryMessages ==
    {utf8_decode(b).msg : b \in Malformed}
        \cup {ImportMessage, SchemeMessage, ClosedMessage, TimeoutMessage}
        \cup {RefusedMessage(from_url(u).ret[1].address) :
                  u \in {u \in {getenv(e.REDIS_URL, DefaultUrl) : e \in Envs} :
                             from_url(u).exc = ""}}

\* part is in d: d is part alone or part followed by ": " and a message
Contains(d, part) ==
    \E suffix \in {""} \cup {": " \o e : e \in ModelErrors \cup LibraryMessages} :
        d = part \o suffix

HasOp(log, op) == \E i \in 1 .. Len(log) : log[i].op = op

ConfiguredRedis == lower(getenv(env.USE_REDIS, "false")) = "true"

Constructible ==
    env.redis_installed /\ from_url(getenv(env.REDIS_URL, DefaultUrl)).exc = ""

-----------------------------------------------------------------------------
(* The claims *)

\* C1: a lookup of a question never set finds nothing, and a lookup of a question
\* whose last cache_response came back, not expired since, finds that answer,
\* on either backend.
C1_MissThenHit ==
    (phase = "running" /\ (USE_REDIS => storeState = "up")) =>
        \A q \in Questions :
            /\ ~EverSet(q) => Lookup(q) = None
            /\ (lastSet[q] # None
                  /\ (USE_REDIS => now < store[KeyOf(q)][1].exp))
                 => Lookup(q) = lastSet[q]

\* C2: on the in-process backend the questions present are exactly the maxsize
\* most recently used of those set, each with the answer last set for it.
C2_LRUEviction ==
    (phase = "running" /\ ~USE_REDIS) =>
        /\ Present = MostRecent(maxsize)
        /\ \A q \in Present : Lookup(q) = lastSet[q]

\* C3: a lookup that came back with a value came back with a value that an
\* earlier cache_response was given for exactly that question.
C3_KeyExactness ==
    \A r \in Slots :
        req[r].cached.ret # None =>
            <<req[r].question, req[r].cached.ret[1]>> \in written

\* C3 witness: a lookup of "foo" found the answer set for "foo" while "Foo" was
\* never set.
C3_Witness ==
    \E r \in Slots :
        /\ req[r].question = "foo"
        /\ req[r].cached.ret # None
        /\ ~EverSet("Foo")

\* C4: a lookup whose store operation failed comes back with None, a
\* cache_response whose store operation failed comes back normally, and the
\* request goes on as after a miss: none ends on the cache's failure.
C4_GracefulDegradation ==
    \A r \in Slots :
        /\ req[r].getFault # "" =>
              /\ req[r].cached = Return(None)
              /\ req[r].pc = "done" => HasOp(req[r].log, "model")
        /\ req[r].setFault # "" =>
              /\ req[r].setOut = Some(Return(None))
              /\ req[r].response = [status |-> 200, answer |-> req[r].answer,
                                    detail |-> ""]

\* C4 witness: a request whose lookup met an undecodable value and whose write
\* then met a store that was down, answered with status 200.
C4_Witness ==
    \E r \in Slots :
        /\ req[r].getFault = "UnicodeDecodeError"
        /\ req[r].setFault = "ConnectionError"
        /\ req[r].response.status = 200

\* C5: when Redis is configured but the client cannot be set up, whatever the
\* cause, startup ends running on the in-process backend.
C5_StartupFallback ==
    (phase # "init" /\ ConfiguredRedis /\ ~Constructible) =>
        (phase = "running" /\ ~USE_REDIS)

\* C6: on the Redis backend an entry written by cache_response is found by a
\* lookup at every moment before TTL seconds have passed since its last set,
\* and not found from then on.
C6_TTLExpiry ==
    (phase = "running" /\ USE_REDIS /\ storeState = "up") =>
        \A q \in Questions :
            lastSet[q] # None =>
                /\ now < store[KeyOf(q)][1].exp => Lookup(q) = lastSet[q]
                /\ now >= store[KeyOf(q)][1].exp => Lookup(q) = None

\* C7: on the in-process backend, when requests in flight together have each
\* stored the answer of its own question, all questions distinct and no more of
\* them than maxsize, a lookup of each question finds the answer stored for it.
C7_ConcurrentSets ==
    (/\ phase = "running" /\ ~USE_REDIS
     /\ \A r \in Slots : StoredByModel(r)
     /\ \A r1, r2 \in Slots : r1 # r2 => req[r1].question # req[r2].question
     /\ Cardinality(Slots) <= maxsize)
        => \A r \in Slots : Lookup(req[r].question) = req[r].answer

\* C8: every call of the Redis backend that is waiting for the store comes back.
C8_EveryCallReturns ==
    \A r \in Slots :
        (req[r].pc \in {"get_blocked", "set_blocked"})
            ~> (req[r].pc \notin {"get_blocked", "set_blocked"})

\* C9: a request with a question consults the cache first; when the lookup comes
\* back with an answer the request ends with that answer and status 200, with
\* no model call and no cache write; the model is called only after a miss, and
\* when it returns its answer is handed to cache_response under the request's
\* question, after the model call, and is the response, with status 200.
C9_AskOrder ==
    \A r \in Slots :
        LET rq == req[r] IN
        /\ rq.log # << >> => rq.log[1] = Ev("get", rq.question, None)
        /\ rq.cached.ret # None =>
              /\ rq.pc = "done"
              /\ rq.log = <<Ev("get", rq.question, None)>>
              /\ rq.response = [status |-> 200, answer |-> rq.cached.ret, detail |-> ""]
        /\ HasOp(rq.log, "model") =>
              /\ rq.cached = Return(None)
              /\ rq.log[2] = Ev("model", rq.question, None)
        /\ HasOp(rq.log, "set") =>
              /\ rq.answer # None
              /\ rq.log = <<Ev("get", rq.question, None), Ev("model", rq.question, None),
                            Ev("set", rq.question, rq.answer)>>
              /\ <<rq.question, rq.answer[1]>> \in written
        /\ (rq.pc = "done" /\ rq.answer # None) =>
              /\ HasOp(rq.log, "set")
              /\ rq.response = [status |-> 200, answer |-> rq.answer, detail |-> ""]

\* C9 witness: one request answered from the model, its answer stored, and
\* another answered from the cache with that answer.
C9_Witness ==
    \E r1, r2 \in Slots :
        /\ StoredByModel(r1) /\ req[r1].response.status = 200
        /\ req[r2].pc = "done" /\ req[r2].cached.ret = req[r1].answer
        /\ req[r2].cached.ret # None
        /\ req[r2].question = req[r1].question

\* C10: the step in which the model call of a request raises answers the request
\* with status 500 and a detail containing "Error generating answer", the
\* request has called cache_response at no time, and the step leaves the store,
\* the memo and what any lookup would find as they were; the lookup the request
\* began with wrote nothing to the store either.
C10_ModelError ==
    [][/\ \A r \in Slots, e \in ModelErrors :
            ModelRaise(r, e) =>
                /\ req'[r].pc = "done"
                /\ req'[r].response.status = 500
                /\ Contains(req'[r].response.detail, "Error generating answer")
                /\ ~HasOp(req'[r].log, "set")
                /\ req'[r].setOut = None
                /\ store' = store /\ lru' = lru /\ written' = written
                /\ \A q \in Questions : Lookup(q)' = Lookup(q)
       /\ \A r \in Slots, q \in Questions :
            Ask(r, q) => store' = store /\ written' = written]_vars

\* C10 witness: a request whose model call raised, answered with status 500 and
\* the detail "Error generating answer: Test model error".
C10_Witness ==
    \E r \in Slots :
        /\ req[r].pc = "done"
        /\ req[r].log = <<Ev("get", req[r].question, None),
                          Ev("model", req[r].question, None)>>
        /\ req[r].response = [status |-> 500, answer |-> None,
                              detail |-> "Error generating answer: Test model error"]

-----------------------------------------------------------------------------
(* Further properties, checked beside the claims *)

\* On the Redis backend an entry with a non-empty answer is found before its
\* TTL has passed since its last set and not found from then on.
TTLOfNonEmptyAnswers ==
    (phase = "running" /\ USE_REDIS /\ storeState = "up") =>
        \A q \in Questions :
            (lastSet[q] # None /\ lastSet[q] # Some(<< >>)) =>
                /\ now < store[KeyOf(q)][1].exp => Lookup(q) = lastSet[q]
                /\ now >= store[KeyOf(q)][1].exp => Lookup(q) = None

\* An entry set and then outlived by its TTL is reached.
ExpiredReached ==
    \E q \in Questions :
        /\ USE_REDIS /\ lastSet[q] = Some(<<65, 233>>)
        /\ now >= store[KeyOf(q)][1].exp

\* Once the module is imported the backend never changes.
BackendFixed == [][phase = "running" => USE_REDIS' = USE_REDIS]_vars

\* A lookup never comes back with an empty answer.
NoEmptyHit == \A q \in Questions : Lookup(q) # Some(<< >>)

====
